---- MODULE Spec2Model ----
(***************************************************************************)
(* Model of the service container src/src/container/IoCContainer.ts.       *)
(*                                                                         *)
(* The container is single-threaded and synchronous; a factory calls back  *)
(* into resolve() before it returns.  The call chain of one top-level      *)
(* resolve() is modelled by `frames`: one frame per running factory        *)
(* activation (one createInstance call), with the position of the factory  *)
(* in its list of dependencies.                                            *)
(***************************************************************************)
EXTENDS Integers, Sequences, FiniteSets, TLC

\* ------------------------------------------------------------- vocabulary
Names == {"A", "B", "C", "D", ""}

\* ServiceLifetime enum
Singleton == "singleton"
Scoped == "scoped"
Transient == "transient"
Lifetimes == {Singleton, Scoped, Transient}

\* An argument that is left out of a call.
Undefined == "undefined"

\* A nullish factory result (null / undefined); also the value of the
\* `instance` field of a registration that was never assigned.
NULL == 0

\* Objects are positive integers; an object is truthy.
Truthy(v) == v # NULL

\* The application programs (sets of factories) the container is run with.
Scenarios == {"self", "cycle", "chain", "diamond", "guarded", "lasso", "empty"}

\* How often the dispose hook of one object is followed.
MaxHookCalls == 2

VARIABLES
    scenario,         \* which application program registers its factories
    flaky,            \* may the factories throw or return null?
    services,         \* Map<string, ServiceRegistration>, by name
    scopedInstances,  \* Map<string, any>, by name
    resolutionStack,  \* Set<string>, in insertion order
    frames,           \* running factory activations, outermost first
    result,           \* outcome of the most recently completed call
    inv,              \* factory invocations per name in the latest top-level resolve
    built,            \* singletons whose factory has returned since they were registered
    start,            \* the container as the current top-level resolve found it
    servicesOrder,    \* the keys of `services` in insertion order
    scopedOrder,      \* the keys of `scopedInstances` in insertion order
    disposed,         \* calls of dispose() so far on each object the container holds
    call,             \* the most recent call, if it registered or disposed, as made
    emitted           \* the event emitted by the most recent call

vars == <<scenario, flaky, services, scopedInstances, resolutionStack,
          frames, result, inv, built, start, servicesOrder, scopedOrder, disposed,
          call, emitted>>

\* ---------------------------------------------------- application programs
\* The names a factory resolves, in order, before it returns.
Deps(n) ==
    CASE scenario = "self"    -> IF n = "A" THEN <<"A">> ELSE <<>>
      [] scenario = "cycle"   -> CASE n = "A" -> <<"B">>
                                   [] n = "B" -> <<"C">>
                                   [] n = "C" -> <<"A">>
                                   [] OTHER   -> <<>>
      [] scenario = "chain"   -> CASE n = "A" -> <<"B">>
                                   [] n = "B" -> <<"C">>
                                   [] OTHER   -> <<>>
      [] scenario = "diamond" -> CASE n = "A" -> <<"B", "C">>
                                   [] n = "B" -> <<"D">>
                                   [] n = "C" -> <<"D">>
                                   [] OTHER   -> <<>>
      [] scenario = "guarded" -> CASE n = "A" -> <<"B", "C">>
                                   [] n = "C" -> <<"B">>
                                   [] OTHER   -> <<>>
      [] scenario = "lasso"   -> CASE n = "A" -> <<"B">>
                                   [] n = "B" -> <<"B">>
                                   [] OTHER   -> <<>>
      [] scenario = "empty"   -> <<>>

\* The names the program registers.
ScenNames ==
    CASE scenario = "self"    -> {"A"}
      [] scenario = "cycle"   -> {"A", "B", "C"}
      [] scenario = "chain"   -> {"A", "B", "C"}
      [] scenario = "diamond" -> {"A", "B", "C", "D"}
      [] scenario = "guarded" -> {"A", "B", "C"}
      [] scenario = "lasso"   -> {"A", "B"}
      [] scenario = "empty"   -> {""}

\* The order in which the program makes its register calls.
Program ==
    IF scenario = "empty" THEN <<"">>
    ELSE SubSeq(<<"A", "B", "C", "D">>, 1, Cardinality(ScenNames))

\* A factory that wraps its resolve calls in try/catch and carries on.
Catches(n) == scenario = "guarded" /\ n = "A"

\* Classes whose instances have a dispose() method.
HasDispose(n) == n \in {"A", "C"}

\* ------------------------------------------------------------ Map helpers
\* The two maps are functions from their keys; the order of their entries,
\* observable only in the order in which dispose() and clearScope() visit
\* them, is kept in `servicesOrder` and `scopedOrder`.

\* Map.prototype.has / get on `services`
Has(n) == n \in DOMAIN services

Get(n) == services[n]

\* A scoped cache that is never found to hold the name.
ScopedHasNever(n) == FALSE

\* Map.prototype.has / get / set on `scopedInstances`
ScopedHas(n) == n \in DOMAIN scopedInstances

ScopedGet(n) == scopedInstances[n]

ScopedSet(n, v) ==
    [m \in DOMAIN scopedInstances \cup {n} |-> IF m = n THEN v ELSE scopedInstances[m]]

\* The empty Map
EmptyMap == [m \in {} |-> NULL]

\* A cycle check that never finds the name.
InStackNever(n) == FALSE

\* Set.prototype.has / add / delete on `resolutionStack`
InStack(n) == \E i \in DOMAIN resolutionStack : resolutionStack[i] = n

\* A resolve that forgets to put the name on the stack.
StackAddForgotten(n) == resolutionStack

StackAdd(n) == IF InStack(n) THEN resolutionStack ELSE Append(resolutionStack, n)

\* A resolve that forgets to take the name off the stack.
StackDeleteForgotten(n) == resolutionStack

StackDelete(n) == SelectSeq(resolutionStack, LAMBDA x : x # n)

Front(s) == SubSeq(s, 1, Len(s) - 1)

\* ----------------------------------------------------------------- errors
\* An error is its root cause plus the names of the createInstance calls
\* that wrapped it ("Failed to create instance of service 'n': ..."),
\* outermost first.  `chain` records the names whose factories were running
\* when the error was raised.
NoErr == [root |-> "none", name |-> "", path |-> <<>>, wrap |-> <<>>, chain |-> {}]

FrameNames(fs) == {fs[i].name : i \in DOMAIN fs}

\* `Service '${name}' is not registered`
NotFoundError(n, fs) ==
    [root |-> "ServiceNotFoundError", name |-> n, path |-> <<>>, wrap |-> <<>>,
     chain |-> FrameNames(fs)]

\* `Circular dependency detected: ${cycle}`
CircularError(n, fs) ==
    [root |-> "CircularDependencyError", name |-> n,
     path |-> Append(resolutionStack, n), wrap |-> <<>>, chain |-> FrameNames(fs)]

\* whatever the factory body itself throws
FactoryError(n, fs) ==
    [root |-> "FactoryError", name |-> n, path |-> <<>>, wrap |-> <<>>,
     chain |-> FrameNames(fs)]

\* `Service '${name}' is already registered`
DuplicateError(n) ==
    [root |-> "DuplicateServiceError", name |-> n, path |-> <<>>, wrap |-> <<>>,
     chain |-> {}]

\* an error thrown out of dispose() or clearScope(): what the dispose()
\* of the instance of n threw ("hook"), or the TypeError of reading
\* `dispose` of a null instance ("type")
DisposeError(kind, n) ==
    [root |-> IF kind = "type" THEN "TypeError" ELSE "DisposeError",
     name |-> n, path |-> <<>>, wrap |-> <<>>, chain |-> {}]

\* A catch block that rethrows what it caught.
WrapNot(n, e) == e

\* createInstance's catch block
Wrap(n, e) == [e EXCEPT !.wrap = <<n>> \o @]

\* The kind of an error as its message reads.
ErrKind(e) == IF e.wrap # <<>> THEN "ServiceConstructionError" ELSE e.root

\* ---------------------------------------------------------------- results
NoResult ==
    [op |-> "none", kind |-> "none", name |-> "", val |-> NULL, err |-> NoErr,
     fresh |-> FALSE, top |-> TRUE]

ValueResult(n, v, fresh, top) ==
    [op |-> "resolve", kind |-> "value", name |-> n, val |-> v, err |-> NoErr,
     fresh |-> fresh, top |-> top]

ErrorResult(op, n, e, top) ==
    [op |-> op, kind |-> "error", name |-> n, val |-> NULL, err |-> e,
     fresh |-> FALSE, top |-> top]

DoneResult(op, n) ==
    [op |-> op, kind |-> "value", name |-> n, val |-> NULL, err |-> NoErr,
     fresh |-> FALSE, top |-> TRUE]

ZeroInv == [n \in Names |-> 0]

\* A call of the application that registered or disposed: the method, the
\* lifetime argument of register(), and the lifetimes of the registrations
\* whose instances had their dispose() called by it.
NoCall == [method |-> "none", arg |-> Undefined, hooked |-> {}]

CallOf(m, a) == [method |-> m, arg |-> a, hooked |-> {}]

\* this.emit('service.registered', { name, lifetime })
NoEvent == [event |-> "none", name |-> "", lifetime |-> Undefined]

RegisteredEvent(n, lt) == [event |-> "service.registered", name |-> n, lifetime |-> lt]

\* What a top-level resolve finds: the resolution stack and the names that
\* have a cached instance.
NoStart == [stack |-> <<>>, cached |-> {}]

\* The container holds an instance of the registered service m.
Holds(m) ==
    \/ services[m].lifetime = Singleton /\ services[m].instance # NULL
    \/ services[m].lifetime = Scoped /\ m \in DOMAIN scopedInstances

\* The objects held by the container.
InUse ==
    {services[n].instance : n \in DOMAIN services}
        \cup {scopedInstances[n] : n \in DOMAIN scopedInstances}

\* The identity of a newly allocated object: one that no cache holds.
FreshId == CHOOSE i \in 1..(Cardinality(Names) + 1) :
              /\ i \notin InUse
              /\ \A j \in 1..(i - 1) : j \in InUse

\* Every object identity, and no dispose() call on any of them.
Objects == 1..(Cardinality(Names) + 1)

NoneDisposed == [i \in Objects |-> 0]

TypeOK ==
    /\ scenario \in Scenarios
    /\ flaky \in BOOLEAN
    /\ DOMAIN services \subseteq Names
    /\ \A n \in DOMAIN services :
          /\ services[n].lifetime \in Lifetimes
          /\ services[n].instance \in 0..Cardinality(Names)
    /\ DOMAIN scopedInstances \subseteq Names
    /\ \A n \in DOMAIN scopedInstances : scopedInstances[n] \in 0..Cardinality(Names)
    /\ \A i \in DOMAIN resolutionStack : resolutionStack[i] \in Names
    /\ \A i \in DOMAIN frames : frames[i].name \in Names /\ frames[i].idx \in 1..3
    /\ result.kind \in {"none", "value", "error"}
    /\ inv \in [Names -> Nat]
    /\ built \subseteq Names
    /\ start.cached \subseteq Names
    /\ {servicesOrder[i] : i \in DOMAIN servicesOrder} = DOMAIN services
    /\ Len(servicesOrder) = Cardinality(DOMAIN services)
    /\ {scopedOrder[i] : i \in DOMAIN scopedOrder} = DOMAIN scopedInstances
    /\ Len(scopedOrder) = Cardinality(DOMAIN scopedInstances)
    /\ disposed \in [Objects -> 0..MaxHookCalls]
    /\ call.arg \in Lifetimes \cup {Undefined}
    /\ call.hooked \subseteq Lifetimes
    /\ emitted.lifetime \in Lifetimes \cup {Undefined}

\* ------------------------------------------------------------------- Init
\* new IoCContainer(): empty maps, empty resolution stack.
Init ==
    /\ scenario \in Scenarios
    /\ flaky \in BOOLEAN
    /\ services = EmptyMap
    /\ scopedInstances = EmptyMap
    /\ resolutionStack = <<>>
    /\ frames = <<>>
    /\ result = NoResult
    /\ inv = ZeroInv
    /\ built = {}
    /\ start = NoStart
    /\ servicesOrder = <<>>
    /\ scopedOrder = <<>>
    /\ disposed = NoneDisposed
    /\ call = NoCall
    /\ emitted = NoEvent

\* --------------------------------------------------------------- register
\* A default lifetime of Singleton.
DefaultSingleton(a) == IF a = Undefined THEN Singleton ELSE a

\* lifetime: ServiceLifetime = ServiceLifetime.Transient
DefaultLifetime(a) == IF a = Undefined THEN Transient ELSE a

\* A register that replaces an existing registration.
RegisterOverwrite(n, a, via) ==
    /\ frames = <<>>
    /\ n \in ScenNames
    /\ IF n \in DOMAIN services THEN TRUE ELSE n = Program[Len(servicesOrder) + 1]
    /\ services' = [m \in DOMAIN services \cup {n} |->
                      IF m = n THEN [lifetime |-> DefaultLifetime(a), instance |-> NULL]
                      ELSE services[m]]
    /\ servicesOrder' = IF n \in DOMAIN services THEN servicesOrder
                        ELSE Append(servicesOrder, n)
    /\ result' = DoneResult("register", n)
    /\ emitted' = RegisteredEvent(n, DefaultLifetime(a))
    /\ call' = CallOf(via, a)
    /\ inv' = ZeroInv
    /\ start' = NoStart
    /\ UNCHANGED <<scenario, flaky, scopedInstances, resolutionStack, frames, built,
                   scopedOrder, disposed>>

\* register(name, factory, lifetime) with the lifetime argument `a`, which
\* may be left out, called by the application through the method `via`; the
\* factory is the one the program has for `name`.  The program registers a
\* name again at any time and a new name when its turn has come.  `call`
\* keeps how a call that registered was made.
Register(n, a, via) ==
    /\ frames = <<>>
    /\ n \in ScenNames
    /\ IF Has(n) THEN TRUE ELSE n = Program[Len(servicesOrder) + 1]
    /\ IF Has(n)
       THEN /\ result' = ErrorResult("register", n, DuplicateError(n), TRUE)
            /\ emitted' = NoEvent
            /\ call' = NoCall
            /\ UNCHANGED <<services, servicesOrder>>
       ELSE /\ services' = [m \in DOMAIN services \cup {n} |->
                              IF m = n THEN [lifetime |-> DefaultLifetime(a),
                                             instance |-> NULL]
                              ELSE services[m]]
            /\ servicesOrder' = Append(servicesOrder, n)
            /\ emitted' = RegisteredEvent(n, DefaultLifetime(a))
            /\ call' = CallOf(via, a)
            /\ result' = DoneResult("register", n)
    /\ inv' = ZeroInv
    /\ start' = NoStart
    /\ UNCHANGED <<scenario, flaky, scopedInstances, resolutionStack, frames, built,
                   scopedOrder, disposed>>

\* The application calls register(name, factory) or
\* register(name, factory, lifetime).
RegisterCall(n, a) == Register(n, a, "register")

\* registerSingleton(name, factory), registerScoped(name, factory) and
\* registerTransient(name, factory) pass the call on to register; the
\* program uses them for the names it has not registered yet.
RegisterSingleton(n) ==
    /\ ~Has(n)
    /\ Register(n, Singleton, "registerSingleton")

RegisterScoped(n) ==
    /\ ~Has(n)
    /\ Register(n, Scoped, "registerScoped")

RegisterTransient(n) ==
    /\ ~Has(n)
    /\ Register(n, Transient, "registerTransient")

\* Map.prototype.has / keys / get as the queries of the container use them
IsRegistered(n) == Has(n)

GetRegisteredServices == servicesOrder

\* What getServiceInfo returns for a name that is not registered: null.
NullInfo == [null |-> TRUE]

\* A getServiceInfo that takes a registration without an instance for none.
GetServiceInfoOfBuilt(n) ==
    IF ~Has(n) \/ ~Truthy(Get(n).instance) THEN NullInfo
    ELSE [null |-> FALSE, lifetime |-> Get(n).lifetime, dependencies |-> <<>>]

\* getServiceInfo(name); `dependencies` is what extractDependencies returned
\* at registration, the empty array.
GetServiceInfo(n) ==
    IF ~Has(n) THEN NullInfo
    ELSE [null |-> FALSE, lifetime |-> Get(n).lifetime, dependencies |-> <<>>]

\* ---------------------------------------------------------------- resolve
\* The caller of a resolve() that has just finished continues: the factory
\* on top of `fs` moves on to its next dependency.
Advance(fs) ==
    IF fs = <<>> THEN fs
    ELSE [fs EXCEPT ![Len(fs)].idx = @ + 1]

\* An error leaves resolve(n) with the activations `fs` still running below
\* it.  A factory that does not catch lets it pass through its own
\* createInstance, which wraps it, and through its own resolve, which is
\* left without resolutionStack.delete.
RECURSIVE Unwind(_, _, _)
Unwind(fs, n, e) ==
    IF fs = <<>> THEN [frames |-> fs, name |-> n, err |-> e]
    ELSE IF Catches(fs[Len(fs)].name) THEN [frames |-> Advance(fs), name |-> n, err |-> e]
    ELSE Unwind(Front(fs), fs[Len(fs)].name, Wrap(fs[Len(fs)].name, e))

\* An error of resolve(n) that ends with the factory that called it, which
\* carries on.
ThrowToCaller(fs, n, e) ==
    /\ frames' = Advance(fs)
    /\ result' = ErrorResult("resolve", n, e, fs = <<>>)

\* resolve(n) throws e
Throw(fs, n, e) ==
    LET u == Unwind(fs, n, e) IN
    /\ frames' = u.frames
    /\ result' = ErrorResult("resolve", u.name, u.err, u.frames = <<>>)

\* resolve(n) returns v
Return(fs, n, v, fresh) ==
    /\ frames' = Advance(fs)
    /\ result' = ValueResult(n, v, fresh, fs = <<>>)

\* resolutionStack.add(name); createInstance(name, registration) starts
\* running the factory.
Enter(fs, n) ==
    /\ resolutionStack' = StackAdd(n)
    /\ frames' = Append(fs, [name |-> n, idx |-> 1])
    /\ result' = IF fs = <<>> THEN NoResult ELSE result

\* A Singleton branch without the test of registration.instance.
UseCachedUntested(n) ==
    \/ Get(n).lifetime = Singleton
    \/ Get(n).lifetime = Scoped /\ ScopedHas(n)

\* Is the cached instance of the registration returned?
UseCached(n) ==
    \/ Get(n).lifetime = Singleton /\ Truthy(Get(n).instance)
    \/ Get(n).lifetime = Scoped /\ ScopedHas(n)

Cached(n) ==
    IF Get(n).lifetime = Singleton THEN Get(n).instance ELSE ScopedGet(n)

\* A registration check that leaves the name on the resolution stack.
NotRegisteredTracked(fs, n) ==
    /\ Throw(fs, n, NotFoundError(n, fs))
    /\ resolutionStack' = StackAdd(n)

\* resolve(name) of a name that is not registered throws at once.
NotRegistered(fs, n) ==
    /\ Throw(fs, n, NotFoundError(n, fs))
    /\ UNCHANGED resolutionStack

\* resolve(name), called with the activations `fs` running: up to the
\* return of a cached instance or the start of the factory.
CallResolve(fs, n) ==
    LET base == IF fs = <<>> THEN ZeroInv ELSE inv IN
    IF ~Has(n) THEN
        /\ NotRegistered(fs, n)
        /\ inv' = base
    ELSE IF InStack(n) THEN
        /\ Throw(fs, n, CircularError(n, fs))
        /\ inv' = base
        /\ UNCHANGED resolutionStack
    ELSE IF UseCached(n) THEN
        /\ Return(fs, n, Cached(n), FALSE)
        /\ inv' = base
        /\ UNCHANGED resolutionStack
    ELSE
        /\ Enter(fs, n)
        /\ inv' = [base EXCEPT ![n] = @ + 1]

\* A top-level resolve(n): no factory is running.
Resolve(n) ==
    /\ frames = <<>>
    /\ n \in ScenNames
    /\ CallResolve(<<>>, n)
    /\ start' = [stack |-> resolutionStack,
                 cached |-> {m \in DOMAIN services : Holds(m)}]
    /\ call' = NoCall
    /\ emitted' = NoEvent
    /\ UNCHANGED <<scenario, flaky, services, scopedInstances, built,
                   servicesOrder, scopedOrder, disposed>>

\* The running factory resolves its next dependency.
Top == frames[Len(frames)]

FactoryResolve ==
    /\ frames # <<>>
    /\ Top.idx <= Len(Deps(Top.name))
    /\ CallResolve(frames, Deps(Top.name)[Top.idx])
    /\ UNCHANGED <<scenario, flaky, services, scopedInstances, built, start,
                   servicesOrder, scopedOrder, disposed, call, emitted>>

\* registration.instance = ...
StoreSingleton(n, v) == [services EXCEPT ![n].instance = v]

\* A resolve that assigns the instance to the registration whatever the
\* lifetime.
StoredAlways(lt, n, v) == StoreSingleton(n, v)

\* `registration.instance = ...` in the Singleton branch only
Stored(lt, n, v) == IF lt = Singleton THEN StoreSingleton(n, v) ELSE services

\* A resolve that keeps the instances of Transient services in the scoped
\* cache.
ScopedKept(lt, n, v) == IF lt # Singleton THEN ScopedSet(n, v) ELSE scopedInstances

\* `scopedInstances.set(...)` in the Scoped branch only
ScopedStored(lt, n, v) == IF lt = Scoped THEN ScopedSet(n, v) ELSE scopedInstances

\* The running factory returns v: createInstance returns it, resolve stores
\* it as the lifetime says, deletes the name from the resolution stack and
\* returns the instance to its caller.
FactoryReturn(v) ==
    /\ frames # <<>>
    /\ Top.idx > Len(Deps(Top.name))
    /\ LET n == Top.name
           lt == Get(n).lifetime
       IN
       /\ services' = Stored(lt, n, v)
       /\ scopedInstances' = ScopedStored(lt, n, v)
       /\ scopedOrder' = IF n \in DOMAIN ScopedStored(lt, n, v) /\ ~ScopedHas(n)
                         THEN Append(scopedOrder, n)
                         ELSE scopedOrder
       /\ resolutionStack' = StackDelete(n)
       /\ built' = IF lt = Singleton THEN built \cup {n} ELSE built
       /\ Return(Front(frames), n, v, TRUE)
    /\ UNCHANGED <<scenario, flaky, inv, start, servicesOrder, disposed, call, emitted>>

\* The values a factory may return now: a newly allocated object or, from
\* an unreliable factory, null.
FactoryValues == {FreshId} \cup (IF flaky THEN {NULL} ELSE {})

\* The running factory throws: createInstance wraps the error and resolve
\* is left by the exception.
FactoryThrow ==
    /\ frames # <<>>
    /\ Top.idx > Len(Deps(Top.name))
    /\ flaky
    /\ Throw(Front(frames), Top.name,
             Wrap(Top.name, FactoryError(Top.name, frames)))
    /\ UNCHANGED <<scenario, flaky, services, scopedInstances, resolutionStack,
                   inv, built, start, servicesOrder, scopedOrder, disposed, call, emitted>>

\* ------------------------------------------------- clearScope and dispose
\* A disposal loop over the entries `es` of a map, a function from names to
\* [inst, guard], visited in the insertion order `ks` of the map; `guard`
\* says that the loop tests the instance for truthiness before it reads
\* instance.dispose.  The loop is left by an exception at an entry whose
\* instance is null and unguarded (TypeError) or whose dispose() throws.
Fatal(e) == ~e.guard /\ e.inst = NULL

Disposes(n, e) == e.inst # NULL /\ HasDispose(n)

\* The ways the loop can run: how many entries it visits and how it ends.
\* A dispose() may throw where factories are unreliable.
LoopRuns(ks, es) ==
    LET Reaches(i) == \A j \in 1..(i - 1) : ~Fatal(es[ks[j]]) IN
    {[visited |-> Len(ks), err |-> "none"] : x \in {y \in {1} : Reaches(Len(ks) + 1)}}
        \cup {[visited |-> i, err |-> "type"] :
                i \in {k \in 1..Len(ks) : Reaches(k) /\ Fatal(es[ks[k]])}}
        \cup {[visited |-> i, err |-> "hook"] :
                i \in {k \in 1..Len(ks) : /\ Reaches(k)
                                          /\ Disposes(ks[k], es[ks[k]])
                                          /\ flaky}}

\* The objects whose dispose() the run has called.
Hooked(ks, es, run) ==
    {es[ks[j]].inst : j \in {k \in 1..run.visited : Disposes(ks[k], es[ks[k]])}}

\* The lifetimes of the registrations whose instances the run has called
\* dispose() on.
HookedLifetimes(ks, es, run) ==
    {services[ks[j]].lifetime :
        j \in {k \in 1..run.visited : Disposes(ks[k], es[ks[k]])}}

DisposalCall(m, lts) == [method |-> m, arg |-> Undefined, hooked |-> lts]

\* The run throws at the entry of this name.
Culprit(ks, run) == ks[run.visited]

SingletonEntries ==
    [n \in DOMAIN services |-> [inst |-> services[n].instance, guard |-> TRUE]]

ScopedEntries ==
    [n \in DOMAIN scopedInstances |-> [inst |-> scopedInstances[n], guard |-> FALSE]]

\* dispose() has been called on the objects `hs`; the objects `gone` have
\* left the container.
Called(hs, gone) ==
    [i \in Objects |-> IF i \in gone THEN 0
                       ELSE IF i \in hs THEN disposed[i] + 1
                       ELSE disposed[i]]

CanCall(hs) == \A i \in hs : disposed[i] < MaxHookCalls

\* A clearScope that clears the registrations as well.
ClearScopeEverything ==
    /\ frames = <<>>
    /\ result' = DoneResult("clearScope", "")
    /\ services' = EmptyMap
    /\ servicesOrder' = <<>>
    /\ scopedInstances' = EmptyMap
    /\ scopedOrder' = <<>>
    /\ disposed' = NoneDisposed
    /\ built' = {}
    /\ call' = DisposalCall("clearScope", {})
    /\ emitted' = NoEvent
    /\ start' = NoStart
    /\ UNCHANGED <<scenario, flaky, resolutionStack, frames, inv>>

\* clearScope()
ClearScope ==
    /\ frames = <<>>
    /\ \E run \in LoopRuns(scopedOrder, ScopedEntries) :
         LET hs == Hooked(scopedOrder, ScopedEntries, run) IN
         /\ CanCall(hs)
         /\ call' = DisposalCall("clearScope",
                                 HookedLifetimes(scopedOrder, ScopedEntries, run))
         /\ IF run.err # "none"
            THEN /\ result' = ErrorResult("clearScope", "",
                                 DisposeError(run.err, Culprit(scopedOrder, run)), TRUE)
                 /\ disposed' = Called(hs, {})
                 /\ UNCHANGED <<scopedInstances, scopedOrder>>
            ELSE /\ result' = DoneResult("clearScope", "")
                 /\ disposed' = Called(hs, {scopedInstances[n] : n \in DOMAIN scopedInstances})
                 /\ scopedInstances' = EmptyMap
                 /\ scopedOrder' = <<>>
    /\ emitted' = NoEvent
    /\ start' = NoStart
    /\ UNCHANGED <<scenario, flaky, services, resolutionStack, frames, built,
                   servicesOrder, inv>>

\* dispose(): the loop over the singletons, then the loop over the scoped
\* instances, then the clearing of the maps.
Dispose ==
    /\ frames = <<>>
    /\ \E r1 \in LoopRuns(servicesOrder, SingletonEntries) :
       \E r2 \in LoopRuns(scopedOrder, ScopedEntries) :
         LET h1 == Hooked(servicesOrder, SingletonEntries, r1)
             h2 == Hooked(scopedOrder, ScopedEntries, r2)
             l1 == HookedLifetimes(servicesOrder, SingletonEntries, r1)
             l2 == HookedLifetimes(scopedOrder, ScopedEntries, r2)
         IN
         IF r1.err # "none"
         THEN /\ CanCall(h1)
              /\ call' = DisposalCall("dispose", l1)
              /\ result' = ErrorResult("dispose", "",
                              DisposeError(r1.err, Culprit(servicesOrder, r1)), TRUE)
              /\ disposed' = Called(h1, {})
              /\ UNCHANGED <<services, scopedInstances, built, servicesOrder, scopedOrder>>
         ELSE IF r2.err # "none"
         THEN /\ CanCall(h1 \cup h2)
              /\ call' = DisposalCall("dispose", l1 \cup l2)
              /\ result' = ErrorResult("dispose", "",
                              DisposeError(r2.err, Culprit(scopedOrder, r2)), TRUE)
              /\ disposed' = Called(h1 \cup h2, {})
              /\ UNCHANGED <<services, scopedInstances, built, servicesOrder, scopedOrder>>
         ELSE /\ CanCall(h1 \cup h2)
              /\ call' = DisposalCall("dispose", l1 \cup l2)
              /\ result' = DoneResult("dispose", "")
              /\ disposed' = NoneDisposed
              /\ services' = EmptyMap
              /\ scopedInstances' = EmptyMap
              /\ servicesOrder' = <<>>
              /\ scopedOrder' = <<>>
              /\ built' = {}
    /\ emitted' = NoEvent
    /\ start' = NoStart
    /\ inv' = ZeroInv
    /\ UNCHANGED <<scenario, flaky, resolutionStack, frames>>

\* ------------------------------------------------------------------- Next
Next ==
    \/ \E n \in Names, a \in Lifetimes \cup {Undefined} : RegisterCall(n, a)
    \/ \E n \in Names : RegisterSingleton(n)
    \/ \E n \in Names : RegisterScoped(n)
    \/ \E n \in Names : RegisterTransient(n)
    \/ \E n \in Names : Resolve(n)
    \/ FactoryResolve
    \/ \E v \in FactoryValues : FactoryReturn(v)
    \/ FactoryThrow
    \/ ClearScope
    \/ Dispose

Spec == Init /\ [][Next]_vars

\* ------------------------------------------------------------ properties
\* The top-level resolve(n) has finished and nothing was called since.
Done(n) ==
    /\ frames = <<>>
    /\ result.op = "resolve"
    /\ result.top
    /\ result.name = n

Lifetime(n) == services[n].lifetime

AllRegistered == ScenNames \subseteq DOMAIN services

\* C1: a Singleton's factory is invoked exactly once in total, whatever
\* value it returns: no factory activation of a singleton is running when
\* the factory of that registration has already returned once.
C1_SingletonFactoryOnce ==
    \A i \in DOMAIN frames :
        (Has(frames[i].name) /\ Lifetime(frames[i].name) = Singleton)
            => frames[i].name \notin built

\* C2: a failed attempt leaves nothing behind that makes a retry fail: a
\* top-level resolve(n) of a registered Transient or Scoped service that
\* resolves no dependencies fails only when its factory is invoked by this
\* very call and throws.
C2_RetrySucceeds ==
    \A n \in Names :
        (/\ Done(n)
         /\ Has(n)
         /\ Lifetime(n) \in {Transient, Scoped}
         /\ Deps(n) = <<>>
         /\ result.kind = "error")
            => /\ inv[n] = 1
               /\ result.err.root = "FactoryError"

\* C3: a Singleton whose construction failed has no cached instance, and
\* the next resolve(n) invokes the factory again: a top-level resolve(n)
\* that ends with no instance cached for the singleton n has invoked the
\* factory of n.
C3_SingletonRetried ==
    \A n \in Names :
        (/\ Done(n)
         /\ Has(n)
         /\ Lifetime(n) = Singleton
         /\ services[n].instance = NULL)
            => inv[n] = 1

\* C4: whenever no resolve call is in progress the resolution stack is
\* empty.
C4_StackEmptyAtRest == frames = <<>> => resolutionStack = <<>>

\* C5: resolve(n) fails with CircularDependencyError only when a factory
\* activation of n is running on the current call chain.
C5_CycleOnlyWhenActive ==
    (/\ result.op = "resolve"
     /\ result.kind = "error"
     /\ result.err.root = "CircularDependencyError")
        => result.err.name \in result.err.chain

\* The top-level resolve('A') of a cycle whose services are all registered
\* has finished.
CycleResolved ==
    /\ scenario \in {"self", "cycle"}
    /\ AllRegistered
    /\ Done("A")

\* C6 as stated: for the self-cycle and the three-node cycle the error the
\* top-level caller of resolve('A') receives is a CircularDependencyError.
C6_CallerGetsCircularError ==
    CycleResolved
        => /\ result.kind = "error"
           /\ ErrKind(result.err) = "CircularDependencyError"

\* No name has two running factory activations.
NoRepeat(fs) == \A i, j \in DOMAIN fs : fs[i].name = fs[j].name => i = j

\* C6 as amended: resolve('A') terminates (the call chain never holds a
\* name twice, so it is no deeper than the number of services) and the
\* caller receives an error whose root cause is a CircularDependencyError,
\* either bare or wrapped by createInstance of 'A' in a
\* ServiceConstructionError.
C6_CallerGetsWrappedCircularError ==
    /\ NoRepeat(frames)
    /\ CycleResolved
        => /\ result.kind = "error"
           /\ result.err.root = "CircularDependencyError"
           /\ \/ result.err.wrap = <<>>
              \/ /\ ErrKind(result.err) = "ServiceConstructionError"
                 /\ result.err.wrap[1] = "A"

\* C6 witness: the three-node cycle was detected and the error reached the
\* caller through the factories of C, B and A.
C6_Witness ==
    /\ scenario = "cycle"
    /\ CycleResolved
    /\ result.err.root = "CircularDependencyError"
    /\ result.err.wrap = <<"A", "B", "C">>

\* C7: in the chain A -> B -> C with factories that return, a top-level
\* resolve('A') that finds an empty resolution stack and no cached instance
\* succeeds and has invoked the factories of A, B and C exactly once each.
C7_ChainResolvesOnce ==
    (/\ scenario = "chain"
     /\ ~flaky
     /\ AllRegistered
     /\ Done("A")
     /\ start.stack = <<>>
     /\ start.cached = {})
        => /\ result.kind = "value"
           /\ result.fresh
           /\ \A n \in {"A", "B", "C"} : inv[n] = 1

\* C7 witness: such a resolve('A') has returned, with B a singleton.
C7_Witness ==
    /\ scenario = "chain"
    /\ ~flaky
    /\ AllRegistered
    /\ Done("A")
    /\ start.stack = <<>>
    /\ start.cached = {}
    /\ result.kind = "value"
    /\ Lifetime("B") = Singleton
    /\ inv["C"] = 1

\* C8: in the diamond A -> B -> D, A -> C -> D with factories that return,
\* a top-level resolve('A') that finds an empty resolution stack succeeds,
\* whatever the lifetimes of the four services and whatever is cached.
C8_DiamondResolves ==
    (/\ scenario = "diamond"
     /\ ~flaky
     /\ AllRegistered
     /\ Done("A")
     /\ start.stack = <<>>)
        => result.kind = "value"

\* C8 witness: resolve('A') has returned after the factory of a Transient D
\* ran twice, once below B and once below C.
C8_Witness ==
    /\ scenario = "diamond"
    /\ ~flaky
    /\ AllRegistered
    /\ Done("A")
    /\ start.stack = <<>>
    /\ result.kind = "value"
    /\ Lifetime("D") = Transient
    /\ inv["D"] = 2

\* C9: each resolve(n) of a registered Transient service invokes the factory
\* exactly once: when a top-level resolve(n) has finished, the factory of n
\* has run once in it.
C9_TransientFactoryOncePerCall ==
    \A n \in Names :
        (Done(n) /\ Has(n) /\ Lifetime(n) = Transient) => inv[n] = 1

\* C10: the first resolve(n) of a Scoped service after a clearScope()
\* invokes the factory again: a resolve(n) made right after a clearScope()
\* call does not return an instance from the scoped cache.
C10_FreshAfterClearScope ==
    [][(/\ result.op = "clearScope"
        /\ result'.op = "resolve"
        /\ result'.kind = "value"
        /\ Has(result'.name)
        /\ Lifetime(result'.name) = Scoped)
          => result'.fresh]_vars

\* C11: dispose() calls the dispose hook of every instance the container
\* holds, no hook is ever called a second time on the same instance, and
\* after dispose() nothing is registered.
C11_DisposeEachOnce ==
    /\ \A i \in Objects : disposed[i] <= 1
    /\ result.op = "dispose" => DOMAIN services = {}

\* C12: a dispose hook that throws during dispose() or clearScope() does
\* not make the call fail: neither call ends with the error of a hook.
C12_HookErrorNotPropagated ==
    result.op \in {"dispose", "clearScope"}
        => ~(result.kind = "error" /\ result.err.root = "DisposeError")

\* C13: once dispose() has been called the container is Disposed for good:
\* the register or resolve call that follows a dispose() fails.
C13_DisposedForGood ==
    [][(/\ result.op = "dispose"
        /\ result'.op \in {"register", "resolve"})
          => result'.kind = "error"]_vars

\* C14: dispose() is idempotent: a dispose() that follows a dispose() calls
\* no dispose hook, changes no state and raises no error.
C14_DisposeIdempotent ==
    [][(/\ result.op = "dispose"
        /\ result'.op = "dispose")
          => /\ result'.kind = "value"
             /\ UNCHANGED <<services, servicesOrder, scopedInstances, scopedOrder,
                            resolutionStack, disposed>>]_vars

\* C15: a name is registered right after its successful register, and no
\* call other than dispose() removes or replaces a registration: resolve,
\* failed resolve, failed register and clearScope all leave every registered
\* name registered with the lifetime it was registered with.
C15_RegistrationStays ==
    /\ [](result.op = "register" /\ result.kind = "value"
            => result.name \in DOMAIN services)
    /\ [][\A n \in DOMAIN services :
            result'.op # "dispose"
                => /\ n \in DOMAIN services'
                   /\ services'[n].lifetime = services[n].lifetime]_vars

\* A resolve of a registered name has failed and the name is still
\* registered.
C15_Witness ==
    /\ frames = <<>>
    /\ result.op = "resolve"
    /\ result.kind = "error"
    /\ result.top
    /\ result.name \in DOMAIN services

\* C16: register(n) for a registered n fails with DuplicateServiceError
\* naming n and leaves the container as it was: registrations, cached
\* instances and resolution stack.
C16_DuplicateRegisterRejected ==
    [][\A n \in DOMAIN services :
        (/\ frames = <<>>
         /\ result'.op = "register"
         /\ result'.name = n)
            => /\ result'.kind = "error"
               /\ ErrKind(result'.err) = "DuplicateServiceError"
               /\ result'.err.name = n
               /\ UNCHANGED <<services, servicesOrder, scopedInstances, scopedOrder,
                              resolutionStack, disposed>>]_vars

\* A register of a name whose singleton instance is cached has failed and
\* the instance is still cached.
C16_Witness ==
    /\ result.op = "register"
    /\ result.kind = "error"
    /\ result.name \in DOMAIN services
    /\ services[result.name].lifetime = Singleton
    /\ services[result.name].instance # NULL

\* C17: resolve(n) for an unregistered n fails with ServiceNotFoundError
\* naming n and changes nothing: registrations, singleton and scoped caches
\* and the resolution stack are as before, for a call made by the
\* application and for a call made by a running factory.
C17_UnregisteredResolveFails ==
    [][/\ \A n \in Names \ DOMAIN services :
            (/\ frames = <<>>
             /\ frames' = <<>>
             /\ result'.op = "resolve"
             /\ result'.name = n)
                => /\ result'.kind = "error"
                   /\ ErrKind(result'.err) = "ServiceNotFoundError"
                   /\ result'.err.name = n
                   /\ UNCHANGED <<services, servicesOrder, scopedInstances,
                                  scopedOrder, resolutionStack>>
       /\ (/\ frames # <<>>
           /\ frames[Len(frames)].idx <= Len(Deps(frames[Len(frames)].name))
           /\ Deps(frames[Len(frames)].name)[frames[Len(frames)].idx]
                 \notin DOMAIN services)
                => /\ result'.kind = "error"
                   /\ result'.err.root = "ServiceNotFoundError"
                   /\ result'.err.name =
                         Deps(frames[Len(frames)].name)[frames[Len(frames)].idx]
                   /\ UNCHANGED <<services, servicesOrder, scopedInstances,
                                  scopedOrder, resolutionStack>>]_vars

\* A resolve of an unregistered name has failed in a container that has
\* registrations and a cached instance.
C17_Witness ==
    /\ frames = <<>>
    /\ result.op = "resolve"
    /\ result.top
    /\ ErrKind(result.err) = "ServiceNotFoundError"
    /\ result.name \notin DOMAIN services
    /\ \E m \in DOMAIN services : Holds(m)

\* C18: clearScope() calls the dispose hook of every scoped instance and
\* empties the scoped cache: after clearScope() the cache is empty.
C18_ClearScopeEmptiesScope ==
    result.op = "clearScope" => DOMAIN scopedInstances = {}

\* C19: the cycle path of a CircularDependencyError starts at the first
\* occurrence of the re-entered name on the stack: it begins and ends with
\* that name.  The resolve call is one that found the resolution stack empty
\* and in which no factory catches an error.
C19_CyclePathFromFirstOccurrence ==
    (/\ result.op = "resolve"
     /\ result.kind = "error"
     /\ result.err.root = "CircularDependencyError"
     /\ start.stack = <<>>
     /\ scenario # "guarded")
        => /\ result.err.path[1] = result.err.name
           /\ result.err.path[Len(result.err.path)] = result.err.name

\* C20: when the factory of n throws, resolve(n) fails with a
\* ServiceConstructionError that names n and wraps the original error; every
\* resolve the error passes through wraps it again under its own name, and
\* a resolve that is left by an error stores no instance.
C20_FactoryErrorWrapped ==
    /\ []((result.op = "resolve" /\ result.kind = "error")
            => /\ result.err.wrap # <<>> => result.err.wrap[1] = result.name
               /\ result.err.root = "FactoryError"
                    => /\ ErrKind(result.err) = "ServiceConstructionError"
                       /\ result.err.wrap # <<>>
                       /\ result.err.wrap[Len(result.err.wrap)] = result.err.name)
    /\ [][(result'.op = "resolve" /\ result'.kind = "error")
            => UNCHANGED <<services, scopedInstances>>]_vars

\* The factory of a dependency has thrown and the error has reached the
\* caller of the outer resolve, wrapped once for each of the two.
C20_Witness ==
    /\ frames = <<>>
    /\ result.op = "resolve"
    /\ result.kind = "error"
    /\ result.top
    /\ result.err.root = "FactoryError"
    /\ Len(result.err.wrap) = 2
    /\ result.err.name # result.name

\* C21: register(n, f) without a lifetime argument records Transient, with
\* one it records the argument, and registerSingleton, registerScoped and
\* registerTransient record Singleton, Scoped and Transient; the recorded
\* lifetime, which is the one resolve reads, is the one getServiceInfo
\* reports and the one the 'service.registered' event carries.
C21_RecordedLifetime ==
    (result.op = "register" /\ result.kind = "value")
        => LET n == result.name
               lt == CASE call.method = "registerSingleton" -> Singleton
                       [] call.method = "registerScoped" -> Scoped
                       [] call.method = "registerTransient" -> Transient
                       [] call.method = "register" /\ call.arg = Undefined -> Transient
                       [] OTHER -> call.arg
           IN /\ n \in DOMAIN services
              /\ services[n].lifetime = lt
              /\ ~GetServiceInfo(n).null
              /\ GetServiceInfo(n).lifetime = lt
              /\ emitted = [event |-> "service.registered", name |-> n, lifetime |-> lt]

\* A register call without a lifetime argument has registered a Transient.
C21_Witness ==
    /\ result.op = "register"
    /\ result.kind = "value"
    /\ call.method = "register"
    /\ call.arg = Undefined
    /\ services[result.name].lifetime = Transient
    /\ emitted.lifetime = Transient

\* C22: register with an empty name fails and inserts no registration: a
\* register('', f) ends with an error and isRegistered('') is never true.
C22_EmptyNameRejected ==
    /\ ~IsRegistered("")
    /\ (result.op = "register" /\ result.name = "") => result.kind = "error"

\* C23: getRegisteredServices() lists exactly the names for which
\* isRegistered is true, each once, and getServiceInfo(n) is null exactly
\* when n is not registered, in every reachable state.
C23_QueriesAgree ==
    /\ {GetRegisteredServices[i] : i \in DOMAIN GetRegisteredServices}
          = {n \in Names : IsRegistered(n)}
    /\ \A i, j \in DOMAIN GetRegisteredServices :
          GetRegisteredServices[i] = GetRegisteredServices[j] => i = j
    /\ \A n \in Names : GetServiceInfo(n).null <=> ~IsRegistered(n)

\* After registrations, a resolve and a clearScope, some names of the
\* program are registered, one of them without an instance, and one is not.
C23_Witness ==
    /\ result.op = "clearScope"
    /\ \E n \in DOMAIN services : services[n].instance # NULL
    /\ \E n \in DOMAIN services : services[n].instance = NULL
    /\ \E n \in ScenNames : ~IsRegistered(n)

\* C24: resolve(n) of a service with a cached instance (a Singleton whose
\* instance is set, a Scoped service with an entry in the scoped cache)
\* returns the cached instance, invokes no factory and leaves the resolution
\* stack as it is, whatever the stack holds; for a call of the application
\* and for a call of a running factory.
C24_CachedBypassesTracker ==
    /\ [](\A n \in Names :
            (Done(n) /\ n \in start.cached)
                => /\ result.kind = "value"
                   /\ ~result.fresh
                   /\ result.val = Cached(n)
                   /\ inv = ZeroInv
                   /\ resolutionStack = start.stack)
    /\ [][\A n \in DOMAIN services :
            (/\ frames # <<>>
             /\ frames[Len(frames)].idx <= Len(Deps(frames[Len(frames)].name))
             /\ Deps(frames[Len(frames)].name)[frames[Len(frames)].idx] = n
             /\ Holds(n))
                => /\ result'.kind = "value"
                   /\ result'.name = n
                   /\ ~result'.fresh
                   /\ result'.val = Cached(n)
                   /\ Len(frames') = Len(frames)
                   /\ UNCHANGED <<resolutionStack, inv, services, scopedInstances>>]_vars

\* A cached instance has been returned to the application while the
\* resolution stack held names.
C24_Witness ==
    /\ \E n \in Names : Done(n) /\ n \in start.cached
    /\ start.stack # <<>>
    /\ result.kind = "value"
    /\ result.val # NULL

\* A CircularDependencyError for a name whose factory is running: a true
\* cycle of the call chain.
TrueCycle ==
    /\ result.op = "resolve"
    /\ result.kind = "error"
    /\ result.err.root = "CircularDependencyError"
    /\ result.err.name \in result.err.chain

\* C25 as stated: when the call chain contains a true cycle, no factory of
\* a service on the chain has been invoked by the time the error is raised.
C25_NoFactoryBeforeCycleError ==
    TrueCycle => \A m \in result.err.chain : inv[m] = 0

\* C25 as amended: the cycle is found while the factories of the chain are
\* running: by the time the error is raised the factory of every service
\* on the chain has been invoked, and the re-entered name fails before its
\* factory is invoked again, so no service ever has two running factory
\* activations.
C25_CycleFoundWhileFactoriesRun ==
    /\ NoRepeat(frames)
    /\ TrueCycle => \A m \in result.err.chain : inv[m] >= 1

\* resolve('A') of the three-node cycle has failed with the factories of A,
\* B and C invoked once each.
C25_Witness ==
    /\ scenario = "cycle"
    /\ Done("A")
    /\ TrueCycle
    /\ result.err.chain = {"A", "B", "C"}
    /\ inv["A"] = 1 /\ inv["B"] = 1 /\ inv["C"] = 1

\* C26: a detected cycle is fatal to the whole chain when no factory
\* catches: every running factory is left by the error (each resolve on the
\* chain wraps it once), the top-level resolve ends with the error and no
\* instance, and no service that was under construction has a cached
\* instance.
C26_CycleFatalToChain ==
    (/\ result.op = "resolve"
     /\ result.err.root = "CircularDependencyError"
     /\ scenario # "guarded")
        => /\ frames = <<>>
           /\ result.top
           /\ result.kind = "error"
           /\ result.val = NULL
           /\ Len(result.err.wrap) = Cardinality(result.err.chain)
           /\ \A m \in result.err.chain : ~Holds(m)

\* The three-node cycle of Singleton and Scoped services has been resolved.
C26_Witness ==
    /\ scenario = "cycle"
    /\ Done("A")
    /\ result.err.root = "CircularDependencyError"
    /\ result.err.chain = {"A", "B", "C"}
    /\ \A m \in {"A", "B", "C"} : services[m].lifetime \in {Singleton, Scoped}
    /\ \E m \in {"A", "B", "C"} : services[m].lifetime = Singleton
    /\ \E m \in {"A", "B", "C"} : services[m].lifetime = Scoped

\* C27: the container never hands out an instance it has disposed: no
\* resolve returns an instance on which clearScope() or dispose() has called
\* dispose().
C27_NoDisposedInstanceHandedOut ==
    (result.op = "resolve" /\ result.kind = "value" /\ result.val # NULL)
        => disposed[result.val] = 0

\* C28: the caches agree with the registrations: a registration holds an
\* instance only if its lifetime is Singleton, and every key of the scoped
\* cache is a registered name whose lifetime is Scoped; so a Transient
\* service has no instance stored anywhere.
C28_CachesAgreeWithRegistrations ==
    /\ \A n \in DOMAIN services :
          services[n].instance # NULL => services[n].lifetime = Singleton
    /\ \A n \in DOMAIN scopedInstances :
          n \in DOMAIN services /\ services[n].lifetime = Scoped

\* A Singleton and a Scoped service have cached instances and a resolve has
\* invoked the factory of a Transient service.
C28_Witness ==
    /\ frames = <<>>
    /\ result.op = "resolve"
    /\ result.kind = "value"
    /\ \E n \in DOMAIN services :
          services[n].lifetime = Singleton /\ services[n].instance # NULL
    /\ \E n \in DOMAIN scopedInstances : scopedInstances[n] # NULL
    /\ \E n \in DOMAIN services : services[n].lifetime = Transient /\ inv[n] >= 1

\* C29: the container never calls the dispose hook of a Transient
\* instance: the instance a resolve of a Transient service returns is held
\* by no cache, and the instances clearScope() and dispose() call dispose()
\* on belong to Singleton and Scoped registrations.
C29_TransientNeverDisposed ==
    /\ call.hooked \subseteq {Singleton, Scoped}
    /\ (/\ result.op = "resolve"
        /\ result.kind = "value"
        /\ result.val # NULL
        /\ result.name \in DOMAIN services
        /\ services[result.name].lifetime = Transient)
            => result.val \notin InUse

\* clearScope() has called the dispose hook of a Scoped instance after a
\* resolve that created an instance of a Transient service with a dispose
\* hook.
C29_Witness ==
    /\ result.op = "clearScope"
    /\ result.kind = "value"
    /\ Scoped \in call.hooked
    /\ \E t \in DOMAIN services :
          services[t].lifetime = Transient /\ HasDispose(t) /\ inv[t] >= 1

\* C30: clearScope() and dispose() raise no error when no dispose hook
\* throws, null instances included: neither call ends with the TypeError of
\* reading `dispose` of a null instance.
C30_NullInstancesTolerated ==
    result.op \in {"dispose", "clearScope"} => result.err.root # "TypeError"

====
